---- MODULE Spec2Model ----
(***************************************************************************)
(* Model of build.rs: the build script that reads src/posts/*.md, parses   *)
(* each post's header (PostCfg::from_str), writes the rendered post to     *)
(* OUT_DIR/posts/, builds the module tree (build_module_tree) and emits    *)
(* OUT_DIR/magic.rs (print).                                               *)
(*                                                                         *)
(* Text is a sequence of one-character strings.  Option<T> is a sequence   *)
(* of length at most one: <<>> is None, <<v>> is Some(v).                  *)
(***************************************************************************)
EXTENDS Integers, Sequences, FiniteSets, TLC

VARIABLES
    pc,        \* position of main / of the function under study
    dir,       \* the entries read_dir("src/posts") yields, in enumeration order
    i,         \* index of the next directory entry of the loop at build.rs:102
    posts,     \* build_module_tree's `posts` vector (the ids)
    warnings,  \* the cargo:warning lines printed so far
    fs,        \* the files under OUT_DIR/posts: path -> content
    root,      \* the Root handed to print
    magic,     \* the file OUT_DIR/magic.rs: [exists, data]
    rerun,     \* whether cargo:rerun-if-changed was printed
    err,       \* the error main returned ("" while none)
    hdr,       \* input of PostCfg::from_str
    res        \* result of PostCfg::from_str

vars == <<pc, dir, i, posts, warnings, fs, root, magic, rerun, err, hdr, res>>

(***************************************************************************)
(* Bounds of the model.                                                    *)
(***************************************************************************)
MaxLines == 4
MaxEntries == 3
MaxNodes == 3

(***************************************************************************)
(* String helpers (std::str).                                              *)
(***************************************************************************)
None == <<>>
Some(v) == <<v>>

WhiteSpace == {" ", "\t", "\r", "\n"}

RECURSIVE trim_start(_)
trim_start(s) ==
    IF s # <<>> /\ Head(s) \in WhiteSpace THEN trim_start(Tail(s)) ELSE s

RECURSIVE trim_end(_)
trim_end(s) ==
    IF s # <<>> /\ s[Len(s)] \in WhiteSpace
    THEN trim_end(SubSeq(s, 1, Len(s) - 1))
    ELSE s

trim(s) == trim_end(trim_start(s))

\* str::find: the index of the first occurrence of pat in s, 0 when there is none
Least(hits) ==
    IF hits = {} THEN 0 ELSE CHOOSE k \in hits : \A j \in hits : k <= j

find(s, pat) ==
    Least({k \in 1..(Len(s) - Len(pat) + 1) : SubSeq(s, k, k + Len(pat) - 1) = pat})

\* str::split_once: None, or Some(<<before, after>>) around the first occurrence
SplitAt(s, k, n) ==
    IF k = 0 THEN None ELSE Some(<<SubSeq(s, 1, k - 1), SubSeq(s, k + n, Len(s))>>)

split_once(s, pat) == SplitAt(s, find(s, pat), Len(pat))

\* str::strip_suffix
strip_suffix(s, suf) ==
    IF Len(s) >= Len(suf) /\ SubSeq(s, Len(s) - Len(suf) + 1, Len(s)) = suf
    THEN Some(SubSeq(s, 1, Len(s) - Len(suf)))
    ELSE None

\* str::lines: split at "\n", a final empty piece dropped, one trailing "\r"
\* stripped from each line
RECURSIVE split_newline(_)
SplitNewlineAt(s, k) ==
    IF k = 0 THEN <<s>>
    ELSE <<SubSeq(s, 1, k - 1)>> \o split_newline(SubSeq(s, k + 1, Len(s)))

split_newline(s) == SplitNewlineAt(s, find(s, <<"\n">>))

strip_cr(l) ==
    IF l # <<>> /\ l[Len(l)] = "\r" THEN SubSeq(l, 1, Len(l) - 1) ELSE l

DropLastEmpty(p) == IF p[Len(p)] = <<>> THEN SubSeq(p, 1, Len(p) - 1) ELSE p

StripEach(q) == [k \in 1..Len(q) |-> strip_cr(q[k])]

lines(s) == StripEach(DropLastEmpty(split_newline(s)))

(***************************************************************************)
(* chrono::NaiveDate, format "%Y-%m-%d".                                   *)
(***************************************************************************)
DigitChars == <<"0", "1", "2", "3", "4", "5", "6", "7", "8", "9">>

IsDigit(c) == \E k \in DOMAIN DigitChars : DigitChars[k] = c

DigitVal(c) == (CHOOSE k \in DOMAIN DigitChars : DigitChars[k] = c) - 1

\* the longest prefix of s made of digits, at most max long
RECURSIVE take_digits(_, _)
take_digits(s, max) ==
    IF max > 0 /\ s # <<>> /\ IsDigit(Head(s))
    THEN <<Head(s)>> \o take_digits(Tail(s), max - 1)
    ELSE <<>>

RECURSIVE number(_)
number(ds) ==
    IF ds = <<>> THEN 0
    ELSE Len(DigitChars) * number(SubSeq(ds, 1, Len(ds) - 1)) + DigitVal(ds[Len(ds)])

IsLeap(y) == (y % 4 = 0 /\ y % 100 # 0) \/ y % 400 = 0

DaysIn(y, m) ==
    IF m = 2 THEN (IF IsLeap(y) THEN 29 ELSE 28)
    ELSE IF m \in {4, 6, 9, 11} THEN 30 ELSE 31

\* the year, month and day read name a day of the calendar
Ymd(y, m, d) ==
    IF m \notin 1..12 \/ d \notin 1..DaysIn(y, m) THEN None
    ELSE Some([y |-> y, m |-> m, d |-> d])

\* "%d" and the end of the input: one or two digits, nothing after
ParseDay(y, m, dd, s) ==
    IF dd = <<>> \/ Len(s) # Len(dd) THEN None ELSE Ymd(y, m, number(dd))

\* "-%d"
ParseDashDay(y, m, s) ==
    IF s = <<>> \/ Head(s) # "-" THEN None
    ELSE ParseDay(y, m, take_digits(Tail(s), 2), Tail(s))

\* "%m": one or two digits
ParseMonth(y, md, s) ==
    IF md = <<>> THEN None
    ELSE ParseDashDay(y, number(md), SubSeq(s, Len(md) + 1, Len(s)))

\* "-%m"
ParseDashMonth(y, s) ==
    IF s = <<>> \/ Head(s) # "-" THEN None
    ELSE ParseMonth(y, take_digits(Tail(s), 2), Tail(s))

\* "%Y": one to four digits
ParseYear(yd, s) ==
    IF yd = <<>> THEN None
    ELSE ParseDashMonth(number(yd), SubSeq(s, Len(yd) + 1, Len(s)))

\* NaiveDate::parse_from_str(s, "%Y-%m-%d"): a year of one to four digits, a
\* month and a day of one or two digits, "-" between them, nothing after,
\* and the three naming a day of the calendar
parse_from_str(s) == ParseYear(take_digits(s, 4), s)

\* a number written with at least w digits, zero padded
RECURSIVE pad(_, _)
pad(n, w) ==
    IF w <= 1 /\ n < Len(DigitChars) THEN <<DigitChars[n + 1]>>
    ELSE pad(n \div Len(DigitChars), w - 1) \o <<DigitChars[(n % Len(DigitChars)) + 1]>>

\* NaiveDate::format("%Y-%m-%d")
format(date) ==
    pad(date.y, 4) \o <<"-">> \o pad(date.m, 2) \o <<"-">> \o pad(date.d, 2)

BadDate == "Expected ISO 8601 Date"

\* parse_naive_date: [err, date]
DateResult(r) ==
    IF r = None THEN [err |-> BadDate, date |-> None] ELSE [err |-> "", date |-> r]

parse_naive_date(s) == DateResult(parse_from_str(s))

(***************************************************************************)
(* PostCfg::from_str.                                                      *)
(***************************************************************************)
S_author == <<"a", "u", "t", "h", "o", "r">>
S_title == <<"t", "i", "t", "l", "e">>
S_published == <<"p", "u", "b", "l", "i", "s", "h", "e", "d">>
S_edited == <<"e", "d", "i", "t", "e", "d">>

Malformed == "expected key=value pair"
NoAuthor == "Expected author"
NoTitle == "Expected title"
NoPublished == "Expected published date"

\* the four `let mut x = None` of build.rs:31-34, and no error yet
NoFields ==
    [err |-> "", author |-> None, title |-> None, published |-> None, edited |-> None]

\* mutant: the first value given to a field is kept
AssignFirst(old, new) == IF old = None THEN Some(new) ELSE old

\* `x = Some(value)`: the assignment replaces whatever x held
Assign(old, new) == Some(new)

\* mutant: a rejected date is dropped instead of returned as an error
AssignDateLenient(acc, f, date) ==
    IF date.err # "" THEN acc ELSE [acc EXCEPT ![f] = Assign(@, date.date[1])]

\* build.rs:45-46: `x = Some(parse_naive_date(value)?)`, on field f
AssignDate(acc, f, date) ==
    IF date.err # "" THEN [acc EXCEPT !.err = date.err]
    ELSE [acc EXCEPT ![f] = Assign(@, date.date[1])]

\* the match at build.rs:42-48
MatchKey(acc, key, value) ==
    IF key = S_author THEN [acc EXCEPT !.author = Assign(@, value)]
    ELSE IF key = S_title THEN [acc EXCEPT !.title = Assign(@, value)]
    ELSE IF key = S_published THEN AssignDate(acc, "published", parse_naive_date(value))
    ELSE IF key = S_edited THEN AssignDate(acc, "edited", parse_naive_date(value))
    ELSE acc

\* mutant: a line without "=" is skipped
SplitLineLenient(acc, kv) ==
    IF kv = None THEN acc ELSE MatchKey(acc, trim(kv[1][1]), trim(kv[1][2]))

\* build.rs:40-41: `?` on a line without "=" leaves the loop with the error
SplitLine(acc, kv) ==
    IF kv = None THEN [acc EXCEPT !.err = Malformed]
    ELSE MatchKey(acc, trim(kv[1][1]), trim(kv[1][2]))

\* build.rs:37-40: an empty (trimmed) line is skipped
TrimmedLine(acc, l) ==
    IF l = <<>> THEN acc ELSE SplitLine(acc, split_once(l, <<"=">>))

\* one iteration of the loop at build.rs:35-49
ParseLine(acc, line) == TrimmedLine(acc, trim(line))

RECURSIVE ParseLines(_, _)
ParseLines(acc, ls) ==
    IF ls = <<>> \/ acc.err # "" THEN acc
    ELSE ParseLines(ParseLine(acc, Head(ls)), Tail(ls))

\* mutant: title is checked before author
BuildCfgTitleFirst(acc) ==
    IF acc.title = None THEN [acc EXCEPT !.err = NoTitle]
    ELSE IF acc.author = None THEN [acc EXCEPT !.err = NoAuthor]
    ELSE IF acc.published = None THEN [acc EXCEPT !.err = NoPublished]
    ELSE acc

\* the struct expression at build.rs:50-55: its fields are evaluated in the
\* order written, and the first `?` on a None returns
BuildCfg(acc) ==
    IF acc.author = None THEN [acc EXCEPT !.err = NoAuthor]
    ELSE IF acc.title = None THEN [acc EXCEPT !.err = NoTitle]
    ELSE IF acc.published = None THEN [acc EXCEPT !.err = NoPublished]
    ELSE acc

\* what from_str returns: on an error only the error, the fields are dropped
Returned(r) == IF r.err # "" THEN [NoFields EXCEPT !.err = r.err] ELSE r

AfterLoop(acc) == IF acc.err # "" THEN Returned(acc) ELSE Returned(BuildCfg(acc))

\* PostCfg::from_str: [err, author, title, published, edited]
from_str(s) == AfterLoop(ParseLines(NoFields, lines(s)))

(***************************************************************************)
(* The inputs: post files and directory entries.                           *)
(***************************************************************************)
\* the example post of the documentation: header, "%%" on its own line, body
DocHello ==
    <<"a", "u", "t", "h", "o", "r", " ", "=", " ", "J", "a", "n", "e", "\n",
      "t", "i", "t", "l", "e", " ", "=", " ", "H", "e", "l", "l", "o", "\n",
      "p", "u", "b", "l", "i", "s", "h", "e", "d", " ", "=", " ", "2", "0",
      "2", "4", "-", "0", "1", "-", "0", "2", "\n", "%", "%", "\n", "B", "o",
      "d", "y", " ", "t", "e", "x", "t", ".">>

\* a post with an edited date, a date without zero padding and a repeated key
DocEdited ==
    <<"a", "u", "t", "h", "o", "r", "=", "x", "\n", " ", "a", "u", "t", "h",
      "o", "r", " ", "=", " ", "J", " ", "\n", "t", "i", "t", "l", "e", "=",
      "T", "\n", "p", "u", "b", "l", "i", "s", "h", "e", "d", "=", "2", "0",
      "2", "4", "-", "1", "-", "2", "\n", "e", "d", "i", "t", "e", "d", "=",
      "2", "0", "2", "4", "-", "0", "2", "-", "2", "9", "\n", "%", "%", "\n",
      "B">>

\* a post whose published date is day-month-year
DocBadDate ==
    <<"a", "u", "t", "h", "o", "r", "=", "J", "\n", "t", "i", "t", "l", "e",
      "=", "T", "\n", "p", "u", "b", "l", "i", "s", "h", "e", "d", "=", "0",
      "2", "-", "0", "1", "-", "2", "0", "2", "4", "\n", "%", "%", "\n", "B">>

\* a post with a line without "=" before its bad edited date
DocBadLine ==
    <<"a", "u", "t", "h", "o", "r", "=", "J", "\n", "n", "o", "t", "e", "\n",
      "e", "d", "i", "t", "e", "d", "=", "2", "0", "2", "3", "-", "0", "2",
      "-", "2", "9", "\n", "%", "%", "\n", "B">>

\* a post without a title
DocNoTitle ==
    <<"a", "u", "t", "h", "o", "r", "=", "J", "\n", "p", "u", "b", "l", "i",
      "s", "h", "e", "d", "=", "2", "0", "2", "4", "-", "0", "1", "-", "0",
      "2", "\n", "%", "%", "\n", "B">>

\* a file without the separator
DocNoSep ==
    <<"a", "u", "t", "h", "o", "r", "=", "J", "\n", "t", "i", "t", "l", "e",
      "=", "T", "\n">>

\* a post whose title holds the separator
DocSepInTitle ==
    <<"a", "u", "t", "h", "o", "r", "=", "J", "\n", "p", "u", "b", "l", "i",
      "s", "h", "e", "d", "=", "2", "0", "2", "4", "-", "0", "1", "-", "0",
      "2", "\n", "t", "i", "t", "l", "e", "=", "a", "%", "%", "b", "\n", "%",
      "%", "\n", "B">>

Texts ==
    {DocHello, DocEdited, DocBadDate, DocBadLine, DocNoTitle, DocNoSep, DocSepInTitle}

S_md == <<".", "m", "d">>
S_sep == <<"%", "%">>
S_all_posts == <<"a", "l", "l", "_", "p", "o", "s", "t", "s">>
S_posts_dir == <<"/", "p", "o", "s", "t", "s", "/">>

\* file names as the operating system holds them; "0xFE" and "0xFF" each stand
\* for one byte that is not valid UTF-8
N_hello == <<"h", "e", "l", "l", "o">> \o S_md
N_xFE == <<"0xFE">> \o S_md
N_xFF == <<"0xFF">> \o S_md
N_draft == <<"d", "r", "a", "f", "t", ".", "t", "x", "t">>
N_sub == <<"s", "u", "b">> \o S_md

InvalidBytes == {"0xFE", "0xFF"}

\* OsStr::to_string_lossy: every invalid byte becomes U+FFFD
to_string_lossy(name) ==
    [k \in 1..Len(name) |-> IF name[k] \in InvalidBytes THEN "U+FFFD" ELSE name[k]]

\* a directory entry: its name, its file type and (for a file) its content
Entries ==
    {[name |-> n, kind |-> "file", text |-> t] : n \in {N_hello, N_xFE, N_xFF}, t \in Texts}
    \cup {[name |-> N_draft, kind |-> "file", text |-> DocHello],
          [name |-> N_sub, kind |-> "dir", text |-> <<>>]}

\* the entries of one directory have pairwise distinct names
Dirs ==
    UNION {{d \in [1..n -> Entries] :
               \A j, k \in 1..n : j # k => d[j].name # d[k].name} : n \in 0..MaxEntries}

\* what a previous build left in OUT_DIR
S_stale == <<"#", " ", "o", "l", "d", "\n">>
NoFiles == [p \in {} |-> <<>>]
StaleFiles == [p \in {S_posts_dir \o N_hello} |-> S_stale]
NoMagic == [exists |-> FALSE, data |-> <<>>]
OldMagic == [exists |-> TRUE, data |-> <<[k |-> "old", s |-> <<>>]>>]

(***************************************************************************)
(* build_module_tree.                                                      *)
(***************************************************************************)
\* entry.file_name().to_string_lossy(), build.rs:104-105
file_name(e) == to_string_lossy(e.name)

\* the match at build.rs:106-107: Some(id) if the entry is a regular file
Id(e) == strip_suffix(file_name(e), S_md)
IsPost(e) == Id(e) # None /\ e.kind = "file"

\* build.rs:110: st.split_once("%%")
SplitPost(e) == split_once(e.text, S_sep)

\* build.rs:100,117: out_dir.join("posts/") with file_name pushed
ArtifactPath(e) == S_posts_dir \o file_name(e)

\* writeln!(file, "# {}\n", title): the format string's "\n" and writeln's own
TitleLine(cfg) == <<"#", " ">> \o cfg.title[1] \o <<"\n", "\n">>

\* writeln!(file, "_By {} on {}_\n", author, published.format("%Y-%m-%d"))
ByLine(cfg) ==
    <<"_", "B", "y", " ">> \o cfg.author[1] \o <<" ", "o", "n", " ">>
    \o format(cfg.published[1]) \o <<"_", "\n", "\n">>

\* `if let Some(edited)`: writeln!(file, "Last Edited: {}\n", edited.format(..))
EditedLine(cfg) ==
    IF cfg.edited = None THEN <<>>
    ELSE <<<<"L", "a", "s", "t", " ", "E", "d", "i", "t", "e", "d", ":", " ">>
           \o format(cfg.edited[1]) \o <<"\n", "\n">>>>

\* mutant: the line break that follows "%%" is not part of the content
ContentAfterSepLine(e) ==
    IF SplitPost(e)[1][2] # <<>> /\ Head(SplitPost(e)[1][2]) = "\n"
    THEN Tail(SplitPost(e)[1][2])
    ELSE SplitPost(e)[1][2]

\* file.write_all(content.as_bytes()): content is what follows the first "%%"
ContentOf(e) == SplitPost(e)[1][2]

\* the writes of build.rs:119-124, in order
Writes(cfg, content) ==
    <<TitleLine(cfg), ByLine(cfg)>> \o EditedLine(cfg) \o <<content>>

RECURSIVE Concat(_)
Concat(ss) == IF ss = <<>> THEN <<>> ELSE Head(ss) \o Concat(Tail(ss))

\* File::create(path) and the writes that put data in it
WriteFile(files, path, data) ==
    [p \in DOMAIN files \cup {path} |-> IF p = path THEN data ELSE files[p]]

\* File::create(path) and the first n - 1 of writes ws; n = 0: File::create fails
Partial(files, path, ws, n) ==
    IF n = 0 THEN files ELSE WriteFile(files, path, Concat(SubSeq(ws, 1, n - 1)))

\* build.rs:133-145: all_posts with one leaf per post, in the order of `posts`
Leaf(id) == [name |-> id, children |-> <<>>, content |-> Some([filename |-> id])]

\* mutant: each leaf is put in front of the ones before it
ModuleTreesReversed(ps) ==
    <<[name |-> S_all_posts,
       children |-> [k \in 1..Len(ps) |-> Leaf(ps[Len(ps) + 1 - k])],
       content |-> None]>>

ModuleTrees(ps) ==
    <<[name |-> S_all_posts,
       children |-> [k \in 1..Len(ps) |-> Leaf(ps[k])],
       content |-> None]>>

Scanning == pc = "scan" /\ i <= Len(dir)

\* build.rs:100-101
CreateDirAll ==
    /\ pc = "start"
    /\ pc' = "scan"
    /\ UNCHANGED <<dir, i, posts, warnings, fs, root, magic, rerun, err, hdr, res>>

\* build.rs:130: any entry that is no regular *.md file is reported and skipped
ScanIgnore ==
    /\ Scanning
    /\ ~IsPost(dir[i])
    /\ warnings' = Append(warnings, file_name(dir[i]))
    /\ i' = i + 1
    /\ UNCHANGED <<pc, dir, posts, fs, root, magic, rerun, err, hdr, res>>

\* build.rs:108-110: the file is read; unwrap() on a file without "%%" panics
ScanPanic ==
    /\ Scanning
    /\ IsPost(dir[i])
    /\ SplitPost(dir[i]) = None
    /\ pc' = "failed"
    /\ err' = "panic"
    /\ UNCHANGED <<dir, i, posts, warnings, fs, root, magic, rerun, hdr, res>>

\* build.rs:108-116: the file is read and split, and its header parsed;
\* `cfg.parse()?` returns the header's error
ScanParse ==
    /\ Scanning
    /\ IsPost(dir[i])
    /\ SplitPost(dir[i]) # None
    /\ hdr' = SplitPost(dir[i])[1][1]
    /\ res' = from_str(hdr')
    /\ err' = res'.err
    /\ pc' = IF err' = "" THEN "write" ELSE "failed"
    /\ UNCHANGED <<dir, i, posts, warnings, fs, root, magic, rerun>>

\* build.rs:117-128: the post is rendered to OUT_DIR/posts and recorded
ScanPost ==
    /\ pc = "write"
    /\ fs' = WriteFile(fs, ArtifactPath(dir[i]), Concat(Writes(res, ContentOf(dir[i]))))
    /\ posts' = Append(posts, Id(dir[i])[1])
    /\ i' = i + 1
    /\ pc' = "scan"
    /\ UNCHANGED <<dir, warnings, root, magic, rerun, err, hdr, res>>

\* build.rs:118-124: File::create or one of the writes fails; File::create
\* truncates, and the writes before the failing one stay in the file
ScanWriteFail ==
    /\ pc = "write"
    /\ \E n \in 0..Len(Writes(res, <<>>)) :
          fs' = Partial(fs, ArtifactPath(dir[i]), Writes(res, ContentOf(dir[i])), n)
    /\ pc' = "failed"
    /\ err' = "io"
    /\ UNCHANGED <<dir, i, posts, warnings, root, magic, rerun, hdr, res>>

\* build.rs:101-109: create_dir_all, read_dir, the entry, its file type, opening
\* or reading the file fails
ScanIoFail ==
    /\ pc = "start" \/ Scanning
    /\ pc' = "failed"
    /\ err' = "io"
    /\ UNCHANGED <<dir, i, posts, warnings, fs, root, magic, rerun, hdr, res>>

\* mutant: the loop over the entries is left after any entry
BuildTreeEarly ==
    /\ pc = "scan"
    /\ root' = ModuleTrees(posts)
    /\ pc' = "print"
    /\ UNCHANGED <<dir, i, posts, warnings, fs, magic, rerun, err, hdr, res>>

\* build.rs:133-145
BuildTree ==
    /\ pc = "scan"
    /\ i > Len(dir)
    /\ root' = ModuleTrees(posts)
    /\ pc' = "print"
    /\ UNCHANGED <<dir, i, posts, warnings, fs, magic, rerun, err, hdr, res>>

(***************************************************************************)
(* print.                                                                  *)
(***************************************************************************)
\* one write call on magic.rs: what is written (k) and the text put in it (s)
MacroChunk == [k |-> "macro", s |-> <<>>]
CloseChunk == [k |-> "close", s |-> <<>>]
OpenChunk(name) == [k |-> "open", s |-> name]

\* Post::fmt: #[doc=include_str!(p!(r###"/posts/{}.md"###))]
DocChunk(post) == [k |-> "doc", s |-> S_posts_dir \o post.filename \o S_md]

\* build.rs:152-154
ContentChunks(module) ==
    IF module.content = None THEN <<>> ELSE <<DocChunk(module.content[1])>>

RECURSIVE print_inner(_), PrintModules(_)

\* mutant: the directive is written inside the module's scope
print_inner_doc_inside(module) ==
    <<OpenChunk(module.name)>> \o ContentChunks(module)
    \o PrintModules(module.children) \o <<CloseChunk>>

\* build.rs:151-161
print_inner(module) ==
    ContentChunks(module) \o <<OpenChunk(module.name)>>
    \o PrintModules(module.children) \o <<CloseChunk>>

\* the loops at build.rs:156-158 and 162-164: each module in stored order
PrintModules(ms) ==
    IF ms = <<>> THEN <<>> ELSE print_inner(Head(ms)) \o PrintModules(Tail(ms))

\* build.rs:150,162-164: everything print writes, in order
PrintOut(rt) == <<MacroChunk>> \o PrintModules(rt)

ProperPrefixes(out) == {SubSeq(out, 1, n) : n \in 0..(Len(out) - 1)}

\* build.rs:149: File::create(dest) creates or truncates magic.rs
PrintCreate ==
    /\ pc = "print"
    /\ magic' = [exists |-> TRUE, data |-> <<>>]
    /\ pc' = "emit"
    /\ UNCHANGED <<dir, i, posts, warnings, fs, root, rerun, err, hdr, res>>

PrintCreateFail ==
    /\ pc = "print"
    /\ pc' = "failed"
    /\ err' = "io"
    /\ UNCHANGED <<dir, i, posts, warnings, fs, root, magic, rerun, hdr, res>>

\* build.rs:150-165: every write and the flush succeed
PrintEmit ==
    /\ pc = "emit"
    /\ magic' = [exists |-> TRUE, data |-> PrintOut(root)]
    /\ pc' = "printed"
    /\ UNCHANGED <<dir, i, posts, warnings, fs, root, rerun, err, hdr, res>>

\* build.rs:150-165: a write or the flush fails; what the BufWriter had already
\* handed to the file stays in it
PrintEmitFail ==
    /\ pc = "emit"
    /\ magic' \in {[exists |-> TRUE, data |-> d] : d \in ProperPrefixes(PrintOut(root))}
    /\ pc' = "failed"
    /\ err' = "io"
    /\ UNCHANGED <<dir, i, posts, warnings, fs, root, rerun, hdr, res>>

\* build.rs:174-175
MainRerun ==
    /\ pc = "printed"
    /\ rerun' = TRUE
    /\ pc' = "done"
    /\ UNCHANGED <<dir, i, posts, warnings, fs, root, magic, err, hdr, res>>

(***************************************************************************)
(* main: one run of the build script over one directory.                   *)
(***************************************************************************)
Init ==
    /\ pc = "start"
    /\ dir \in Dirs
    /\ i = 1
    /\ posts = <<>>
    /\ warnings = <<>>
    /\ \E prev \in BOOLEAN :
          /\ fs = IF prev THEN StaleFiles ELSE NoFiles
          /\ magic = IF prev THEN OldMagic ELSE NoMagic
    /\ root = <<>>
    /\ rerun = FALSE
    /\ err = ""
    /\ hdr = <<>>
    /\ res = NoFields

Next ==
    \/ CreateDirAll
    \/ ScanIgnore
    \/ ScanPanic
    \/ ScanParse
    \/ ScanPost
    \/ ScanWriteFail
    \/ ScanIoFail
    \/ BuildTree
    \/ PrintCreate
    \/ PrintCreateFail
    \/ PrintEmit
    \/ PrintEmitFail
    \/ MainRerun

Spec == Init /\ [][Next]_vars

(***************************************************************************)
(* PostCfg::from_str on its own: every header of at most MaxLines lines    *)
(* drawn from HeaderLines.                                                 *)
(***************************************************************************)
L_author == <<"a", "u", "t", "h", "o", "r", "=", "J">>
L_author2 == <<" ", "a", "u", "t", "h", "o", "r", " ", "=", " ", "K", " ">>
L_title == <<"t", "i", "t", "l", "e", " ", "=", " ", "a", "=", "b">>
L_published ==
    <<"p", "u", "b", "l", "i", "s", "h", "e", "d", "=",
      "2", "0", "2", "4", "-", "0", "1", "-", "0", "2">>
L_edited ==
    <<"e", "d", "i", "t", "e", "d", "=", "2",
      "0", "2", "4", "-", "2", "-", "2", "9">>
L_baddate ==
    <<"p", "u", "b", "l", "i", "s", "h", "e", "d", "=",
      "0", "2", "-", "0", "1", "-", "2", "0", "2", "4">>
L_blank == <<" ", "\r">>
L_note == <<"n", "o", "t", "e">>
L_tags == <<"t", "a", "g", "s", "=", "x">>

HeaderLines ==
    {L_author, L_author2, L_title, L_published, L_edited,
     L_baddate, L_blank, L_note, L_tags}

RECURSIVE Headers(_)
Headers(n) ==
    IF n = 0 THEN {<<>>}
    ELSE Headers(n - 1) \cup {l \o <<"\n">> \o h : l \in HeaderLines, h \in Headers(n - 1)}

InitParse ==
    /\ pc = "from_str"
    /\ hdr \in Headers(MaxLines)
    /\ res = NoFields
    /\ err = ""
    /\ dir = <<>>
    /\ i = 1
    /\ posts = <<>>
    /\ warnings = <<>>
    /\ fs = NoFiles
    /\ magic = NoMagic
    /\ root = <<>>
    /\ rerun = FALSE

\* build.rs:30-56
FromStr ==
    /\ pc = "from_str"
    /\ res' = from_str(hdr)
    /\ err' = res'.err
    /\ pc' = "returned"
    /\ UNCHANGED <<dir, i, posts, warnings, fs, root, magic, rerun, hdr>>

SpecParse == InitParse /\ [][FromStr]_vars

(***************************************************************************)
(* print on its own: every Root of at most MaxNodes modules, of any depth. *)
(***************************************************************************)
Labels ==
    {[name |-> n, content |-> c] :
        n \in {<<"a">>, <<"b">>}, c \in {None, Some([filename |-> <<"p">>])}}

\* the sequences of module trees that hold n modules in all
RECURSIVE Forests(_)
Forests(n) ==
    IF n = 0 THEN {<<>>}
    ELSE UNION {{<<[name |-> l.name, children |-> c, content |-> l.content]>> \o f :
                    l \in Labels, c \in Forests(k - 1), f \in Forests(n - k)} :
                k \in 1..n}

Roots == UNION {Forests(n) : n \in 0..MaxNodes}

InitPrint ==
    /\ pc = "print"
    /\ root \in Roots
    /\ magic \in {NoMagic, OldMagic}
    /\ err = ""
    /\ dir = <<>>
    /\ i = 1
    /\ posts = <<>>
    /\ warnings = <<>>
    /\ fs = NoFiles
    /\ rerun = FALSE
    /\ hdr = <<>>
    /\ res = NoFields

NextPrint ==
    \/ PrintCreate
    \/ PrintCreateFail
    \/ PrintEmit
    \/ PrintEmitFail

SpecPrint == InitPrint /\ [][NextPrint]_vars

(***************************************************************************)
(* Reading a header line by line, and a directory entry by entry, for the  *)
(* statements below.                                                       *)
(***************************************************************************)
Blank(l) == \A k \in DOMAIN l : l[k] \in WhiteSpace
HasEq(l) == \E k \in DOMAIN l : l[k] = "="
NoEq(l) == ~Blank(l) /\ ~HasEq(l)
FirstEq(l) == CHOOSE k \in DOMAIN l : l[k] = "=" /\ \A j \in 1..(k - 1) : l[j] # "="
KeyOf(l) == trim(SubSeq(l, 1, FirstEq(l) - 1))
ValueOf(l) == trim(SubSeq(l, FirstEq(l) + 1, Len(l)))
Carries(l, key) == HasEq(l) /\ KeyOf(l) = key
Occurs(ls, key) == \E k \in DOMAIN ls : Carries(ls[k], key)
Last(ls, key) ==
    CHOOSE k \in DOMAIN ls :
        Carries(ls[k], key) /\ \A j \in (k + 1)..Len(ls) : ~Carries(ls[j], key)
BadDateLine(l) ==
    /\ HasEq(l)
    /\ KeyOf(l) \in {S_published, S_edited}
    /\ parse_from_str(ValueOf(l)) = None
Recognized == {S_author, S_title, S_published, S_edited}

RECURSIVE Join(_)
Join(ls) == IF ls = <<>> THEN <<>> ELSE Head(ls) \o <<"\n">> \o Join(Tail(ls))

Without(ls, k) == SubSeq(ls, 1, k - 1) \o SubSeq(ls, k + 1, Len(ls))
NotBlank(l) == ~Blank(l)

\* a regular file whose (decoded) name ends in ".md", and that name without it
RegularMd(e) ==
    /\ e.kind = "file"
    /\ Len(file_name(e)) >= Len(S_md)
    /\ \A k \in DOMAIN S_md : file_name(e)[Len(file_name(e)) - Len(S_md) + k] = S_md[k]
NotRegularMd(e) == ~RegularMd(e)
Stem(e) == SubSeq(file_name(e), 1, Len(file_name(e)) - Len(S_md))

\* what precedes and what follows the first "%%" of a post
HeaderText(e) == SubSeq(e.text, 1, find(e.text, S_sep) - 1)
AfterSep(e) == SubSeq(e.text, find(e.text, S_sep) + Len(S_sep), Len(e.text))

\* the rendered post of entry e, complete
Rendered(e) == Concat(Writes(from_str(HeaderText(e)), AfterSep(e)))

Range(f) == {f[k] : k \in DOMAIN f}

(***************************************************************************)
(* C1.                                                                     *)
(***************************************************************************)
\* C1: once build_module_tree has returned, Root holds exactly one top-level
\* module, all_posts, without content; its children are, in enumeration order,
\* one leaf per entry that is a regular file named *.md, each named after the
\* file name without ".md" and carrying that post; every other entry gave one
\* warning and no node.
C1_TreeMirrorsDirectory ==
    root # <<>> =>
        /\ Len(root) = 1
        /\ root[1].name = S_all_posts
        /\ root[1].content = None
        /\ Len(root[1].children) = Len(SelectSeq(dir, RegularMd))
        /\ \A k \in DOMAIN root[1].children :
              root[1].children[k] =
                  [name |-> Stem(SelectSeq(dir, RegularMd)[k]),
                   children |-> <<>>,
                   content |-> Some([filename |-> Stem(SelectSeq(dir, RegularMd)[k])])]
        /\ Len(warnings) = Len(SelectSeq(dir, NotRegularMd))
        /\ \A k \in DOMAIN warnings :
              warnings[k] = file_name(SelectSeq(dir, NotRegularMd)[k])

\* a tree built from a directory with an ignored entry before two posts
C1_Witness ==
    /\ root # <<>>
    /\ Len(root[1].children) >= 2
    /\ Len(dir) >= 3
    /\ NotRegularMd(dir[1])
    /\ root[1].children[1].name # root[1].children[2].name

(***************************************************************************)
(* C2.                                                                     *)
(***************************************************************************)
S_line_sep == <<"\n">> \o S_sep \o <<"\n">>

\* the post is <header>\n%%\n<body>, and its first "%%" is that separator
C2_HasForm(e) ==
    /\ find(e.text, S_line_sep) # 0
    /\ find(e.text, S_sep) = find(e.text, S_line_sep) + 1
C2_Header(e) == SubSeq(e.text, 1, find(e.text, S_line_sep) - 1)
C2_Body(e) == SubSeq(e.text, find(e.text, S_line_sep) + Len(S_line_sep), Len(e.text))

\* title line, blank line, by line, (blank line, last-edited line)
C2_Banner(cfg) ==
    <<"#", " ">> \o cfg.title[1] \o <<"\n", "\n">>
    \o <<"_", "B", "y", " ">> \o cfg.author[1] \o <<" ", "o", "n", " ">>
    \o format(cfg.published[1]) \o <<"_", "\n">>
    \o (IF cfg.edited = None THEN <<>>
        ELSE <<"\n", "L", "a", "s", "t", " ", "E", "d", "i", "t", "e", "d", ":", " ">>
             \o format(cfg.edited[1]) \o <<"\n">>)

\* entry i - 1 was a post and has just been rendered
C2_JustRendered == pc = "scan" /\ i > 1 /\ RegularMd(dir[i - 1])

C2_HelloAsDocumented ==
    <<"#", " ", "H", "e", "l", "l", "o", "\n", "\n",
      "_", "B", "y", " ", "J", "a", "n", "e", " ", "o", "n", " ",
      "2", "0", "2", "4", "-", "0", "1", "-", "0", "2", "_", "\n", "\n",
      "B", "o", "d", "y", " ", "t", "e", "x", "t", ".">>

C2_HelloAsWritten ==
    <<"#", " ", "H", "e", "l", "l", "o", "\n", "\n",
      "_", "B", "y", " ", "J", "a", "n", "e", " ", "o", "n", " ",
      "2", "0", "2", "4", "-", "0", "1", "-", "0", "2", "_", "\n", "\n", "\n",
      "B", "o", "d", "y", " ", "t", "e", "x", "t", ".">>

\* C2 as stated: the rendered post is the banner, exactly one blank line, and
\* the body unchanged; the example post is rendered as documented.
C2_OneBlankLineThenBody ==
    (C2_JustRendered /\ C2_HasForm(dir[i - 1])) =>
        /\ fs[ArtifactPath(dir[i - 1])]
              = C2_Banner(from_str(C2_Header(dir[i - 1]))) \o <<"\n">> \o C2_Body(dir[i - 1])
        /\ dir[i - 1].text = DocHello => fs[ArtifactPath(dir[i - 1])] = C2_HelloAsDocumented

\* C2 amended: the rendered post is the banner, one blank line, and then all
\* that follows the first "%%" of the file unchanged; for <header>\n%%\n<body>
\* that is the line break after "%%" and the body, so that two blank lines
\* stand between banner and body, and the example post is rendered with them.
C2_BannerThenAllAfterSeparator ==
    C2_JustRendered =>
        /\ fs[ArtifactPath(dir[i - 1])]
              = C2_Banner(from_str(HeaderText(dir[i - 1]))) \o <<"\n">> \o AfterSep(dir[i - 1])
        /\ C2_HasForm(dir[i - 1]) =>
              fs[ArtifactPath(dir[i - 1])]
                  = C2_Banner(from_str(C2_Header(dir[i - 1])))
                    \o <<"\n", "\n">> \o C2_Body(dir[i - 1])
        /\ dir[i - 1].text = DocHello => fs[ArtifactPath(dir[i - 1])] = C2_HelloAsWritten

\* the example post and a post with an edited date have been rendered
C2_Witness ==
    /\ C2_JustRendered
    /\ i > 2
    /\ dir[i - 1].text = DocHello
    /\ dir[i - 2].text = DocEdited
    /\ RegularMd(dir[i - 2])

(***************************************************************************)
(* C3.                                                                     *)
(***************************************************************************)
C3_FirstMissing(ls) ==
    IF ~Occurs(ls, S_author) THEN NoAuthor
    ELSE IF ~Occurs(ls, S_title) THEN NoTitle
    ELSE IF ~Occurs(ls, S_published) THEN NoPublished
    ELSE ""

C3_WellFormed(ls) == \A k \in DOMAIN ls : ~NoEq(ls[k]) /\ ~BadDateLine(ls[k])

\* C3: on a header whose non-blank lines all hold "=" and whose dates are all
\* accepted, from_str fails exactly when author, title or published never
\* occurs, naming the first of them that is missing in the order author, title,
\* published, wherever the lines stand; when it succeeds, edited is absent
\* exactly when no edited line is present.
C3_FirstMissingFieldNamed ==
    (pc = "returned" /\ C3_WellFormed(lines(hdr))) =>
        /\ res.err = C3_FirstMissing(lines(hdr))
        /\ res.err = "" => (res.edited = None <=> ~Occurs(lines(hdr), S_edited))

\* published comes first in the header, author and title are both missing
C3_Witness ==
    /\ pc = "returned"
    /\ C3_WellFormed(lines(hdr))
    /\ Len(lines(hdr)) >= 2
    /\ Carries(lines(hdr)[1], S_published)
    /\ ~Occurs(lines(hdr), S_author)
    /\ ~Occurs(lines(hdr), S_title)
    /\ res.err = NoAuthor

(***************************************************************************)
(* C7.                                                                     *)
(***************************************************************************)
C7_NoEqLines(ls) == {k \in DOMAIN ls : NoEq(ls[k])}
C7_BadDateLines(ls) == {k \in DOMAIN ls : BadDateLine(ls[k])}

\* C7 as stated: a non-blank line without "=" makes parsing fail with the
\* malformed-line error whatever the other lines hold.
C7_NoEqAlwaysMalformed ==
    (pc = "returned" /\ C7_NoEqLines(lines(hdr)) # {}) => res.err = Malformed

\* C7 amended: a non-blank line without "=" makes parsing fail: with the
\* malformed-line error, unless an earlier line gives published or edited a
\* date that is rejected, and then with the bad-date error of that line.  Blank
\* lines are skipped: the header without them parses to the same result.  A
\* line is split at its first "=" and both sides trimmed: the author and title
\* returned are what follows the first "=" of their last line, trimmed.
C7_FirstBadLineDecides ==
    pc = "returned" =>
        /\ C7_NoEqLines(lines(hdr)) # {} =>
              res.err = IF \E b \in C7_BadDateLines(lines(hdr)) :
                              \A m \in C7_NoEqLines(lines(hdr)) : b < m
                        THEN BadDate
                        ELSE Malformed
        /\ from_str(Join(SelectSeq(lines(hdr), NotBlank))) = res
        /\ res.err = "" =>
              /\ res.author = Some(ValueOf(lines(hdr)[Last(lines(hdr), S_author)]))
              /\ res.title = Some(ValueOf(lines(hdr)[Last(lines(hdr), S_title)]))

\* author, title and published are all set to accepted values, and a line
\* without "=" fails the parse
C7_Witness ==
    /\ pc = "returned"
    /\ Occurs(lines(hdr), S_author)
    /\ Occurs(lines(hdr), S_title)
    /\ Occurs(lines(hdr), S_published)
    /\ C7_BadDateLines(lines(hdr)) = {}
    /\ C7_NoEqLines(lines(hdr)) # {}
    /\ res.err = Malformed

(***************************************************************************)
(* C8.                                                                     *)
(***************************************************************************)
\* a line that may be removed: one with an unrecognized key, or one whose
\* recognized key occurs again further down
C8_Droppable(ls, k) ==
    /\ HasEq(ls[k])
    /\ \/ KeyOf(ls[k]) \notin Recognized
       \/ \E j \in (k + 1)..Len(ls) : Carries(ls[j], KeyOf(ls[k]))

\* C8: when parsing succeeds, each field returned is the value of the last
\* line carrying its key (edited absent when no line carries it), and removing
\* a line with another key, or a line whose key occurs again later, leaves the
\* result unchanged.
C8_LastOccurrenceWins ==
    (pc = "returned" /\ res.err = "") =>
        /\ res.author = Some(ValueOf(lines(hdr)[Last(lines(hdr), S_author)]))
        /\ res.title = Some(ValueOf(lines(hdr)[Last(lines(hdr), S_title)]))
        /\ res.published
              = parse_from_str(ValueOf(lines(hdr)[Last(lines(hdr), S_published)]))
        /\ res.edited
              = IF Occurs(lines(hdr), S_edited)
                THEN parse_from_str(ValueOf(lines(hdr)[Last(lines(hdr), S_edited)]))
                ELSE None
        /\ \A k \in DOMAIN lines(hdr) :
              C8_Droppable(lines(hdr), k) =>
                  from_str(Join(Without(lines(hdr), k))) = res

\* parsing succeeded on a header that sets author twice, to different values
C8_Witness ==
    /\ pc = "returned"
    /\ res.err = ""
    /\ \E j, k \in DOMAIN lines(hdr) :
          /\ j < k
          /\ Carries(lines(hdr)[j], S_author)
          /\ Carries(lines(hdr)[k], S_author)
          /\ ValueOf(lines(hdr)[j]) # ValueOf(lines(hdr)[k])

(***************************************************************************)
(* C4.                                                                     *)
(***************************************************************************)
\* entry e is a post whose header gives published or edited a rejected date
C4_BadDatePost(e) ==
    /\ RegularMd(e)
    /\ find(e.text, S_sep) # 0
    /\ C7_BadDateLines(lines(HeaderText(e))) # {}

\* a line without "=" stands before the first rejected date of the header
C4_NoEqFirst(e) ==
    \E m \in C7_NoEqLines(lines(HeaderText(e))) :
        \A b \in C7_BadDateLines(lines(HeaderText(e))) : m < b

\* the step aborts the pass and leaves every file, the posts recorded and the
\* position in the directory as they were
C4_AbortsUntouched ==
    /\ pc' = "failed"
    /\ fs' = fs
    /\ magic' = magic
    /\ posts' = posts
    /\ i' = i

\* C4 as stated: reaching a post with a rejected date aborts the pass with the
\* bad-date error before any file of that post is created or written; nothing
\* is processed after the abort, and what was written before stays.
C4_BadDateAbortsWithBadDate ==
    [][/\ pc # "failed"
       /\ (Scanning /\ C4_BadDatePost(dir[i]) /\ err' # "io") =>
              (C4_AbortsUntouched /\ err' = BadDate)]_vars

\* C4 amended: reaching (and reading) a post whose published or edited value
\* parse_naive_date rejects aborts the pass before any file of that post is
\* created or written: with the bad-date error, unless a line without "="
\* stands before the first such date in the header, and then with the
\* malformed-line error.  Nothing is processed after the abort, and the files
\* written for earlier posts stay as written.
C4_BadDateAbortsBeforeWriting ==
    [][/\ pc # "failed"
       /\ (Scanning /\ C4_BadDatePost(dir[i]) /\ err' # "io") =>
              /\ C4_AbortsUntouched
              /\ err' = IF C4_NoEqFirst(dir[i]) THEN Malformed ELSE BadDate]_vars

\* the pass was aborted by a bad date at its second or third entry; the first
\* entry's post is recorded and its rendered file is in place
C4_Witness ==
    /\ pc = "failed"
    /\ err = BadDate
    /\ i > 1
    /\ posts # <<>>
    /\ RegularMd(dir[1])
    /\ fs[ArtifactPath(dir[1])] = Rendered(dir[1])
    /\ ArtifactPath(dir[i]) \notin DOMAIN fs

(***************************************************************************)
(* C5.                                                                     *)
(***************************************************************************)
\* C5: after print has failed, magic.rs is absent, or holds a complete
\* generated source (the previous build's, or this build's).
C5_NoPartialMagic ==
    (pc = "failed" /\ root # <<>>) =>
        \/ ~magic.exists
        \/ magic = OldMagic
        \/ magic.data = PrintOut(root)

(***************************************************************************)
(* C6.                                                                     *)
(***************************************************************************)
\* C6: the names of a directory's entries being pairwise distinct, no two
\* sibling modules of the Root built have the same name.
C6_SiblingNamesUnique ==
    root # <<>> =>
        /\ \A j, k \in DOMAIN root : j # k => root[j].name # root[k].name
        /\ \A j, k \in DOMAIN root[1].children :
              j # k => root[1].children[j].name # root[1].children[k].name

(***************************************************************************)
(* C9.                                                                     *)
(***************************************************************************)
\* the post a directive names
C9_PostOf(path) ==
    [filename |-> SubSeq(path, Len(S_posts_dir) + 1, Len(path) - Len(S_md))]

\* reading the chunks back: stack holds the modules that are open (under a
\* bottom entry that collects the top-level ones), pending the directive read
\* and not yet attached; [ok, forest]
RECURSIVE C9_Read(_, _, _)
C9_Read(chunks, stack, pending) ==
    IF chunks = <<>>
    THEN [ok |-> Len(stack) = 1 /\ pending = None, forest |-> stack[1].children]
    ELSE IF Head(chunks).k = "doc"
    THEN IF pending # None THEN [ok |-> FALSE, forest |-> <<>>]
         ELSE C9_Read(Tail(chunks), stack, Some(C9_PostOf(Head(chunks).s)))
    ELSE IF Head(chunks).k = "open"
    THEN C9_Read(Tail(chunks),
                 Append(stack, [name |-> Head(chunks).s, children |-> <<>>,
                                content |-> pending]),
                 None)
    ELSE IF Head(chunks).k = "close" /\ Len(stack) >= 2 /\ pending = None
    THEN C9_Read(Tail(chunks),
                 Append(SubSeq(stack, 1, Len(stack) - 2),
                        [stack[Len(stack) - 1] EXCEPT
                            !.children = Append(@, stack[Len(stack)])]),
                 None)
    ELSE [ok |-> FALSE, forest |-> <<>>]

C9_Bottom == <<[name |-> <<>>, children |-> <<>>, content |-> None]>>

\* C9: what print has written starts with the macro definition, which occurs
\* only there; the rest reads back as exactly the Root: every module opens one
\* scope, its directive (if it has content) stands immediately before its own
\* `pub mod`, its children follow in stored order, and its scope closes after
\* the last of them.
C9_OutputMirrorsRoot ==
    pc = "printed" =>
        /\ magic.exists
        /\ magic.data # <<>>
        /\ magic.data[1] = MacroChunk
        /\ \A k \in 2..Len(magic.data) : magic.data[k] # MacroChunk
        /\ C9_Read(Tail(magic.data), C9_Bottom, None) = [ok |-> TRUE, forest |-> root]

\* a Root three levels deep whose middle module has content was printed
C9_Witness ==
    /\ pc = "printed"
    /\ root # <<>>
    /\ root[1].children # <<>>
    /\ root[1].children[1].children # <<>>
    /\ root[1].children[1].content # None
    /\ root[1].content = None

(***************************************************************************)
(* C10.                                                                    *)
(***************************************************************************)
\* the file of post k is in place, complete, as rendered from k or from a later
\* entry that is rendered to the same path
C10_FullyWritten(k) ==
    /\ ArtifactPath(dir[k]) \in DOMAIN fs
    /\ \E j \in k..Len(dir) :
          /\ RegularMd(dir[j])
          /\ ArtifactPath(dir[j]) = ArtifactPath(dir[k])
          /\ fs[ArtifactPath(dir[k])] = Rendered(dir[j])

\* C10: while entries are still processed magic.rs is not touched and the
\* rerun signal not printed, and nothing happens after a failure, so a pass
\* that fails there leaves magic.rs as it was; magic.rs is created or truncated only when every entry has been
\* processed and every post's file is completely written; the rerun signal is
\* printed only as the pass succeeds; and then every directive of magic.rs
\* names a file written completely during this pass.
C10_MagicAfterAllPosts ==
    [][/\ pc # "failed"
       /\ pc \in {"start", "scan", "write"} => (magic' = magic /\ ~rerun')
       /\ magic' # magic =>
             /\ i > Len(dir)
             /\ \A k \in DOMAIN dir : RegularMd(dir[k]) => C10_FullyWritten(k)
       /\ rerun' => pc' = "done"
       /\ pc' = "done" =>
             /\ rerun'
             /\ magic'.data = PrintOut(root)
             /\ \A c \in Range(magic'.data) :
                   c.k = "doc" =>
                       \E k \in DOMAIN dir :
                           /\ RegularMd(dir[k])
                           /\ c.s = ArtifactPath(dir[k])
                           /\ C10_FullyWritten(k)
                           /\ fs'[c.s] # S_stale]_vars

\* the pass succeeded over two posts, hello.md among them
C10_Witness ==
    /\ pc = "done"
    /\ Len(posts) >= 2
    /\ S_posts_dir \o N_hello \in DOMAIN fs
    /\ Cardinality({c \in Range(magic.data) : c.k = "doc"}) >= 2

====
